---- MODULE Spec2Model ----
(***************************************************************************)
(* Athena Pools Task Scheduler: the Jobs page, the job's tasks page and    *)
(* the two edit forms, as one state machine.  One component is mounted at  *)
(* a time; its React state (job, task, parentJob, loading) is discarded on *)
(* every navigation.  The hardcoded sample arrays of the pages are the     *)
(* only stores.                                                            *)
(*                                                                         *)
(* Identifiers and paths are sequences of one-character strings, so that   *)
(* pathname.split('/') and the link templates are computed, not assumed.   *)
(* All other text fields are plain strings.                                *)
(***************************************************************************)
EXTENDS Integers, Sequences, FiniteSets, TLC

(***************************************************************************)
(* Bounds of the model.                                                    *)
(***************************************************************************)
\* router.push calls recorded per mounted component
MaxPushes == 2

(***************************************************************************)
(* JavaScript values.                                                      *)
(***************************************************************************)
\* A nullable piece of React state: <<>> is null, <<v>> holds v.
Null == <<>>
Some(v) == <<v>>
IsNull(s) == s = <<>>
Val(s) == s[1]

\* undefined and "" are both falsy and both differ from every stored id; the
\* code tells them apart nowhere, so both are the empty sequence.
Undefined == <<>>
Truthy(s) == s # <<>>

\* find with the id test left out: the first element, whatever its id
FindFirst(arr, id) == IF arr = <<>> THEN Null ELSE Some(Head(arr))

\* Array.prototype.find: the first element whose id is id, as a nullable.
RECURSIVE Find(_, _)
Find(arr, id) ==
  IF arr = <<>> THEN Null
  ELSE IF Head(arr).id = id THEN Some(Head(arr))
  ELSE Find(Tail(arr), id)

\* Object spread with a computed property name: {...o, [name]: value}
Spread(o, name, value) ==
  [k \in (DOMAIN o) \cup {name} |-> IF k = name THEN value ELSE o[k]]

\* String.prototype.split with a one-character separator
RECURSIVE SplitFrom(_, _, _, _)
SplitFrom(s, sep, cur, acc) ==
  IF s = <<>> THEN Append(acc, cur)
  ELSE IF Head(s) = sep THEN SplitFrom(Tail(s), sep, <<>>, Append(acc, cur))
  ELSE SplitFrom(Tail(s), sep, Append(cur, Head(s)), acc)

split(s, sep) == SplitFrom(s, sep, <<>>, <<>>)

\* arr[n] with a zero-based index: undefined when out of range
At(arr, n) == IF n + 1 <= Len(arr) THEN arr[n + 1] ELSE Undefined

(***************************************************************************)
(* Text constants of the routes.                                           *)
(***************************************************************************)
Slash == "/"
SegJobs == <<"j", "o", "b", "s">>
SegTasks == <<"t", "a", "s", "k", "s">>
SegEdit == <<"e", "d", "i", "t">>
Seg404 == <<"4", "0", "4">>

Path404 == <<Slash>> \o Seg404
PathJobs == <<Slash>> \o SegJobs
PathHome == <<Slash>>

\* `/jobs/${id}/tasks`
TasksHref(id) == PathJobs \o <<Slash>> \o id \o <<Slash>> \o SegTasks
\* `/jobs/${id}/edit`
EditJobHref(id) == PathJobs \o <<Slash>> \o id \o <<Slash>> \o SegEdit
\* `/jobs/${job.id}/tasks/${task.id}/edit`
EditTaskHref(jid, tid) ==
  PathJobs \o <<Slash>> \o jid \o <<Slash>> \o SegTasks \o <<Slash>> \o tid
           \o <<Slash>> \o SegEdit

(***************************************************************************)
(* Sample data.                                                            *)
(***************************************************************************)
J1 == <<"1">>
J2 == <<"2">>
J3 == <<"3">>
J9 == <<"9">>
T11 == <<"1", "-", "1">>
T12 == <<"1", "-", "2">>
T13 == <<"1", "-", "3">>
T21 == <<"2", "-", "1">>
T22 == <<"2", "-", "2">>
T23 == <<"2", "-", "3">>
T99 == <<"9", "-", "9">>

MkTask(id, title, description, completed, dueDate, notes) ==
  [id |-> id, title |-> title, description |-> description,
   completed |-> completed, dueDate |-> dueDate, notes |-> notes]

MkJob(id, jobName, clientName, status, gateCode, notes, tasks) ==
  [id |-> id, jobName |-> jobName, clientName |-> clientName, status |-> status,
   gateCode |-> gateCode, notes |-> notes, tasks |-> tasks]

\* the jobs with task names only (Jobs page and edit-job page)
SeedJobs ==
  << MkJob(J1, "Lot 3", "Cindy McKinny", "In Progress", "4729", "",
           <<"Excavation", "Steel", "Plumbing">>),
     MkJob(J2, "Sage Thrasher", "X", "Scheduled", "", "",
           <<"Demo", "Steel", "Plumbing">>),
     MkJob(J3, "Emergency Repair - Wilson Pool", "Mike Wilson", "Overdue", "", "",
           <<"Replace pump", "Check electrical connections", "Test system">>) >>

\* the jobs with nested task objects as the tasks page declares them
SeedJobsWithTasks ==
  << MkJob(J1, "Lot 3", "Cindy McKinny", "In Progress", "4729", "",
       << MkTask(T11, "Excavation", "Test pH, chlorine, and alkalinity levels",
                 TRUE, "2025-06-04", ""),
          MkTask(T12, "Steel", "Jaime Steel", FALSE, "2025-06-16", ""),
          MkTask(T13, "Plumbing", "Abraham Plumbing", FALSE, "2025-06-21", "") >>),
     MkJob(J2, "Sage Thrasher", "X", "Scheduled", "", "",
       << MkTask(T21, "Demo", "demo pre-existing pool", FALSE, "2025-06-20",
                 "Check soil/ground conditions"),
          MkTask(T22, "Steel", "Haime Steel", FALSE, "2025-07-01", ""),
          MkTask(T23, "Plumbing", "Abraham Plumbing", FALSE, "2025-07-22", "") >>) >>

\* the edit-task page's array gone stale: task 2-3 missing, task 1-2 renamed
SeedJobsEditStale ==
  [SeedJobsWithTasks EXCEPT ![1].tasks[2].title = "Rebar",
                            ![2].tasks = SubSeq(@, 1, 2)]

\* the jobs with nested task objects as the edit-task page declares them
SeedJobsEdit ==
  << MkJob(J1, "Lot 3", "Cindy McKinny", "In Progress", "4729", "",
       << MkTask(T11, "Excavation", "Test pH, chlorine, and alkalinity levels",
                 TRUE, "2025-06-04", ""),
          MkTask(T12, "Steel", "Jaime Steel", FALSE, "2025-06-16", ""),
          MkTask(T13, "Plumbing", "Abraham Plumbing", FALSE, "2025-06-21", "") >>),
     MkJob(J2, "Sage Thrasher", "X", "Scheduled", "", "",
       << MkTask(T21, "Demo", "demo pre-existing pool", FALSE, "2025-06-20",
                 "Check soil/ground conditions"),
          MkTask(T22, "Steel", "Haime Steel", FALSE, "2025-07-01", ""),
          MkTask(T23, "Plumbing", "Abraham Plumbing", FALSE, "2025-07-22", "") >>) >>

\* the local array of the Jobs component, rebuilt on every render
jobs == SeedJobs

\* the keys of statusColors: the statuses the application knows
statusColors == {"Scheduled", "In Progress", "Completed", "Overdue"}

(***************************************************************************)
(* Inputs: the URLs a visitor can open and the events the forms can emit.  *)
(***************************************************************************)
\* job ids and task ids put into URLs: seeded ones and unknown ones
JobIdInputs == {J1, J2, J3, J9}
TaskIdInputs == {T11, T12, T21, T99}

UrlInputs ==
  {PathHome, PathJobs, Path404}
    \cup {EditJobHref(i) : i \in JobIdInputs}
    \cup {TasksHref(i) : i \in JobIdInputs}
    \cup {EditTaskHref(i, t) : i \in JobIdInputs, t \in TaskIdInputs}

\* pathnames that carry no job id or no task id where a page reads one
UnresolvedPaths ==
  {PathJobs, EditJobHref(<<>>), TasksHref(<<>>), TasksHref(J1),
   EditTaskHref(<<>>, T11), EditTaskHref(J1, <<>>)}

\* ids handleTaskCompletionChange is called with: the checkboxes of the tasks
\* on screen, and an id no task has
ToggleInputs(j) ==
  (IF IsNull(j) THEN {T11} ELSE {Val(j).tasks[k].id : k \in DOMAIN Val(j).tasks})
    \cup {T99}

\* text typed into a text input or textarea
FieldValues == {"", "Completed"}
\* value of a date input: empty or a calendar date
DateValues == {"", "2025-07-01"}

\* the controls of the edit-job form: name and type of each
EditJobControls ==
  { [name |-> "jobName", type |-> "text"],
    [name |-> "clientName", type |-> "text"],
    [name |-> "gateCode", type |-> "text"],
    [name |-> "notes", type |-> "textarea"],
    [name |-> "status", type |-> "text"] }

\* the controls of the edit-task form
EditTaskControls ==
  { [name |-> "title", type |-> "text"],
    [name |-> "description", type |-> "textarea"],
    [name |-> "dueDate", type |-> "date"],
    [name |-> "notes", type |-> "textarea"],
    [name |-> "completed", type |-> "checkbox"] }

\* e.target of a change event on control c
ChangeEvents(controls) ==
  UNION { IF c.type = "checkbox"
            THEN {[name |-> c.name, type |-> c.type, value |-> "on", checked |-> b] :
                    b \in BOOLEAN}
          ELSE IF c.type = "date"
            THEN {[name |-> c.name, type |-> c.type, value |-> v, checked |-> FALSE] :
                    v \in DateValues}
          ELSE {[name |-> c.name, type |-> c.type, value |-> v, checked |-> FALSE] :
                    v \in FieldValues}
        : c \in controls }

(***************************************************************************)
(* State.                                                                  *)
(***************************************************************************)
VARIABLES
  page,            \* the mounted component
  pathname,        \* usePathname()
  params,          \* the params prop of JobTasks
  job,             \* useState<Job | null> of EditJob and of JobTasks
  task,            \* useState<Task | null> of EditTask
  parentJob,       \* useState<Job | null> of EditTask
  loading,         \* useState(true)
  effectPending,   \* the mount effect has not run yet
  pushed,          \* router.push calls of the mounted component, oldest first
  allJobs,         \* sample array of the edit-job page
  initialJobs,     \* sample array of the tasks page
  initialJobsEdit, \* sample array of the edit-task page
  history          \* the last calls of handleTaskCompletionChange: taskId, prevJob

vars == <<page, pathname, params, job, task, parentJob, loading, effectPending,
          pushed, allJobs, initialJobs, initialJobsEdit, history>>

stores == <<allJobs, initialJobs, initialJobsEdit>>

Stateful == {"EditJob", "JobTasks", "EditTask"}
Pages == Stateful \cup {"Home", "Jobs", "NotFound"}

(***************************************************************************)
(* Routing: which component the app directory serves for a path.  A        *)
(* dynamic segment matches any non-empty segment.                          *)
(***************************************************************************)
Route(p) ==
  LET segs == split(p, Slash) IN
  IF p = PathHome THEN "Home"
  ELSE IF segs = <<<<>>, SegJobs>> THEN "Jobs"
  ELSE IF /\ Len(segs) = 4 /\ segs[1] = <<>> /\ segs[2] = SegJobs
          /\ segs[3] # <<>> /\ segs[4] = SegEdit THEN "EditJob"
  ELSE IF /\ Len(segs) = 4 /\ segs[1] = <<>> /\ segs[2] = SegJobs
          /\ segs[3] # <<>> /\ segs[4] = SegTasks THEN "JobTasks"
  ELSE IF /\ Len(segs) = 6 /\ segs[1] = <<>> /\ segs[2] = SegJobs
          /\ segs[3] # <<>> /\ segs[4] = SegTasks
          /\ segs[5] # <<>> /\ segs[6] = SegEdit THEN "EditTask"
  ELSE "NotFound"

\* the params the router hands to the page at /jobs/[id]/tasks
ParamsOf(p) == [id |-> At(split(p, Slash), 2)]

\* const id = pathname.split('/')[2]  (EditJob)
id == At(split(pathname, Slash), 2)
\* const jobId = params.id  (JobTasks)
jobId == params.id
\* pathSegments[2] and pathSegments[4]  (EditTask)
pathSegments == split(pathname, Slash)
etJobId == At(pathSegments, 2)
\* the task id read one segment early: pathSegments[3]
taskIdSegment3 == At(pathSegments, 3)
taskId == At(pathSegments, 4)

(***************************************************************************)
(* Mounting a component: fresh React state.                                *)
(***************************************************************************)
Mount(c, p) ==
  /\ page' = c
  /\ pathname' = p
  /\ params' = ParamsOf(p)
  /\ job' = Null
  /\ task' = Null
  /\ parentJob' = Null
  /\ loading' = (c \in Stateful)
  /\ effectPending' = (c \in Stateful)
  /\ pushed' = <<>>
  /\ history' = <<>>
  /\ UNCHANGED stores

Init ==
  /\ page = "Home"
  /\ pathname = PathHome
  /\ params = ParamsOf(PathHome)
  /\ job = Null
  /\ task = Null
  /\ parentJob = Null
  /\ loading = FALSE
  /\ effectPending = FALSE
  /\ pushed = <<>>
  /\ history = <<>>
  /\ allJobs = SeedJobs
  /\ initialJobs = SeedJobsWithTasks
  /\ initialJobsEdit = SeedJobsEdit

\* the visitor opens a URL
Visit(p) == Mount(Route(p), p)

\* a stateful page rendered with a pathname the router has not resolved to it
\* (the case the else branches of the effects provide for)
Render(c, p) ==
  /\ c \in Stateful
  /\ Mount(c, p)

\* Home: <a href="/jobs">
ClickViewJobs ==
  /\ page = "Home"
  /\ Visit(PathJobs)

\* Jobs: <Link href={`/jobs/${job.id}/tasks`}>
ClickViewTasks(j) ==
  /\ page = "Jobs"
  /\ Visit(TasksHref(j.id))

\* Jobs: <Link href={`/jobs/${job.id}/edit`}>
ClickEditJob(j) ==
  /\ page = "Jobs"
  /\ Visit(EditJobHref(j.id))

\* JobTasks: <Link href={`/jobs/${job.id}/tasks/${task.id}/edit`}>, rendered
\* for every task once the job is shown
ClickEditTask(i) ==
  /\ page = "JobTasks"
  /\ ~loading
  /\ ~IsNull(job)
  /\ i \in 1..Len(Val(job).tasks)
  /\ Visit(EditTaskHref(Val(job).id, Val(job).tasks[i].id))

\* the router carries out the latest router.push
RouterNavigate ==
  /\ pushed # <<>>
  /\ Visit(pushed[Len(pushed)])

(***************************************************************************)
(* EditJob (edit-job page).                                                *)
(***************************************************************************)
\* the mount effect without the router.push('/404') of the not-found branch
EditJobLookupNoRedirect(store, i, prevJob) ==
  IF Truthy(i)
    THEN LET foundJob == Find(store, i) IN
         IF ~IsNull(foundJob)
           THEN [job |-> foundJob, loading |-> FALSE, push |-> <<>>]
           ELSE [job |-> prevJob, loading |-> FALSE, push |-> <<>>]
    ELSE [job |-> prevJob, loading |-> FALSE, push |-> <<>>]

\* the mount effect: what it leaves in job, loading and the router
EditJobLookup(store, i, prevJob) ==
  IF Truthy(i)
    THEN LET foundJob == Find(store, i) IN
         IF ~IsNull(foundJob)
           THEN [job |-> foundJob, loading |-> FALSE, push |-> <<>>]
           ELSE [job |-> prevJob, loading |-> FALSE, push |-> <<Path404>>]
    ELSE [job |-> prevJob, loading |-> FALSE, push |-> <<>>]

EditJobEffect ==
  /\ page = "EditJob"
  /\ effectPending
  /\ LET r == EditJobLookup(allJobs, id, job) IN
       /\ job' = r.job
       /\ loading' = r.loading
       /\ pushed' = pushed \o r.push
  /\ effectPending' = FALSE
  /\ UNCHANGED <<page, pathname, params, task, parentJob, stores, history>>

\* handleChange written without the functional form, setJob({...job, [name]:
\* value}): it spreads the job of the last render, not the pending state
EditJobChangeStale(prevJob, e) ==
  IF IsNull(job) THEN Null
  ELSE Some(Spread(Val(job), e.name, e.value))

\* the updater without its null guard: {...null, [name]: value}
EditJobChangeNoGuard(prevJob, e) ==
  IF IsNull(prevJob) THEN Some([k \in {e.name} |-> e.value])
  ELSE Some(Spread(Val(prevJob), e.name, e.value))

\* the updater building the new job from the form fields only, tasks left out
EditJobChangeDropsTasks(prevJob, e) ==
  IF IsNull(prevJob) THEN Null
  ELSE Some(Spread(Spread(Val(prevJob), "tasks", <<>>), e.name, e.value))

\* the updater handleChange passes to setJob
EditJobChange(prevJob, e) ==
  IF IsNull(prevJob) THEN Null
  ELSE Some(Spread(Val(prevJob), e.name, e.value))

\* allJobs after a handleChange that assigns prevJob[name] = value in place:
\* prevJob is the element of allJobs the effect put into the state
EditJobChangeStoreInPlace(store, prevJob, e) ==
  IF IsNull(prevJob) THEN store
  ELSE [k \in DOMAIN store |->
          IF store[k].id = Val(prevJob).id
            THEN Spread(store[k], e.name, e.value)
            ELSE store[k]]

\* allJobs after handleChange: the updater assigns to no property of prevJob
EditJobChangeStore(store, prevJob, e) == store

EditJobHandleChange(e) ==
  /\ page = "EditJob"
  /\ job' = EditJobChange(job, e)
  /\ allJobs' = EditJobChangeStore(allJobs, job, e)
  /\ UNCHANGED <<page, pathname, params, task, parentJob, loading, effectPending,
                 pushed, initialJobs, initialJobsEdit, history>>

\* handleSubmit: log, alert, router.push('/jobs')
EditJobSubmitTarget == PathJobs

EditJobHandleSubmit ==
  /\ page = "EditJob"
  /\ Len(pushed) < MaxPushes
  /\ pushed' = Append(pushed, EditJobSubmitTarget)
  /\ UNCHANGED <<page, pathname, params, job, task, parentJob, loading,
                 effectPending, stores, history>>

\* what EditJob renders
EditJobView ==
  IF loading THEN "loading" ELSE IF IsNull(job) THEN "notFound" ELSE "form"

(***************************************************************************)
(* JobTasks (tasks page).                                                  *)
(***************************************************************************)
\* the mount effect: nothing at all happens without a jobId
JobTasksLookup(store, i, prevJob, prevLoading) ==
  IF Truthy(i)
    THEN LET foundJob == Find(store, i) IN
         IF ~IsNull(foundJob)
           THEN [job |-> foundJob, loading |-> FALSE, push |-> <<>>]
           ELSE [job |-> prevJob, loading |-> FALSE, push |-> <<Path404>>]
    ELSE [job |-> prevJob, loading |-> prevLoading, push |-> <<>>]

JobTasksEffect ==
  /\ page = "JobTasks"
  /\ effectPending
  /\ LET r == JobTasksLookup(initialJobs, jobId, job, loading) IN
       /\ job' = r.job
       /\ loading' = r.loading
       /\ pushed' = pushed \o r.push
  /\ effectPending' = FALSE
  /\ history' = <<>>
  /\ UNCHANGED <<page, pathname, params, task, parentJob, stores>>

\* the map setting completed to true instead of negating it
updatedTasksSetTrue(tasks, tid) ==
  [k \in DOMAIN tasks |->
     IF tasks[k].id = tid
       THEN Spread(tasks[k], "completed", TRUE)
       ELSE tasks[k]]

\* the map without the id test: the completed flag of every task flipped
updatedTasksAll(tasks, tid) ==
  [k \in DOMAIN tasks |-> Spread(tasks[k], "completed", ~tasks[k].completed)]

\* the map returning the flipped matching task for every element
updatedTasksCopy(tasks, tid) ==
  LET found == Find(tasks, tid) IN
  [k \in DOMAIN tasks |->
     IF IsNull(found) THEN tasks[k]
     ELSE Spread(Val(found), "completed", ~Val(found).completed)]

\* the map followed by a reverse(): the flipped list in the opposite order
updatedTasksReversed(tasks, tid) ==
  [k \in DOMAIN tasks |->
     LET t == tasks[Len(tasks) + 1 - k] IN
     IF t.id = tid THEN Spread(t, "completed", ~t.completed) ELSE t]

\* prevJob.tasks.map(...): the completed flag of the matching tasks flipped
updatedTasks(tasks, tid) ==
  [k \in DOMAIN tasks |->
     IF tasks[k].id = tid
       THEN Spread(tasks[k], "completed", ~tasks[k].completed)
       ELSE tasks[k]]

\* the updater setting status to Completed once every task is completed
ToggleCompletionDerivesStatus(prevJob, tid) ==
  IF IsNull(prevJob) THEN Null
  ELSE LET flipped ==
             [k \in DOMAIN Val(prevJob).tasks |->
                IF Val(prevJob).tasks[k].id = tid
                  THEN Spread(Val(prevJob).tasks[k], "completed",
                              ~Val(prevJob).tasks[k].completed)
                  ELSE Val(prevJob).tasks[k]]
           withTasks == Spread(Val(prevJob), "tasks", flipped)
       IN  IF \A k \in DOMAIN flipped : flipped[k].completed
             THEN Some(Spread(withTasks, "status", "Completed"))
             ELSE Some(withTasks)

\* the updater with id: taskId written next to tasks in the new job object
ToggleCompletionTaskId(prevJob, tid) ==
  IF IsNull(prevJob) THEN Null
  ELSE Some(Spread(Spread(Val(prevJob), "tasks",
                          [k \in DOMAIN Val(prevJob).tasks |->
                             IF Val(prevJob).tasks[k].id = tid
                               THEN Spread(Val(prevJob).tasks[k], "completed",
                                           ~Val(prevJob).tasks[k].completed)
                               ELSE Val(prevJob).tasks[k]]),
                   "id", tid))

\* the updater handleTaskCompletionChange passes to setJob
ToggleCompletion(prevJob, tid) ==
  IF IsNull(prevJob) THEN Null
  ELSE Some(Spread(Val(prevJob), "tasks", updatedTasks(Val(prevJob).tasks, tid)))

\* the two latest calls are remembered: the task id and the state it found
Remember(h, call) == IF Len(h) < 2 THEN Append(h, call) ELSE <<h[2], call>>

\* initialJobs after handleTaskCompletionChange: map and spread build new
\* objects, the elements of the array are not assigned to
ToggleCompletionStore(store, prevJob, tid) == store

handleTaskCompletionChange(tid) ==
  /\ page = "JobTasks"
  /\ job' = ToggleCompletion(job, tid)
  /\ initialJobs' = ToggleCompletionStore(initialJobs, job, tid)
  /\ history' = Remember(history, [taskId |-> tid, prevJob |-> job])
  /\ UNCHANGED <<page, pathname, params, task, parentJob, loading, effectPending,
                 pushed, allJobs, initialJobsEdit>>

\* what JobTasks renders
JobTasksView ==
  IF loading THEN "loading" ELSE IF IsNull(job) THEN "notFound" ELSE "list"

(***************************************************************************)
(* EditTask (edit-task page).                                              *)
(***************************************************************************)
\* the mount effect taking the first task of the job when taskId matches none
EditTaskLookupFirstTask(store, i, t, prevTask, prevParent) ==
  IF Truthy(i) /\ Truthy(t)
    THEN LET foundJob == Find(store, i) IN
         IF ~IsNull(foundJob)
           THEN LET foundTask == Find(Val(foundJob).tasks, t) IN
                [task |-> IF IsNull(foundTask)
                            THEN Some(Val(foundJob).tasks[1]) ELSE foundTask,
                 parentJob |-> foundJob, loading |-> FALSE, push |-> <<>>]
           ELSE [task |-> prevTask, parentJob |-> prevParent,
                 loading |-> FALSE, push |-> <<Path404>>]
    ELSE [task |-> prevTask, parentJob |-> prevParent,
          loading |-> FALSE, push |-> <<>>]

\* the mount effect looking the task up in every job of the array instead of
\* in the found job
EditTaskLookupAcrossJobs(store, i, t, prevTask, prevParent) ==
  LET RECURSIVE FindTask(_)
      FindTask(js) ==
        IF js = <<>> THEN Null
        ELSE IF ~IsNull(Find(Head(js).tasks, t)) THEN Find(Head(js).tasks, t)
        ELSE FindTask(Tail(js))
  IN
  IF Truthy(i) /\ Truthy(t)
    THEN LET foundJob == Find(store, i) IN
         IF ~IsNull(foundJob)
           THEN LET foundTask == FindTask(store) IN
                IF ~IsNull(foundTask)
                  THEN [task |-> foundTask, parentJob |-> foundJob,
                        loading |-> FALSE, push |-> <<>>]
                  ELSE [task |-> prevTask, parentJob |-> foundJob,
                        loading |-> FALSE, push |-> <<Path404>>]
           ELSE [task |-> prevTask, parentJob |-> prevParent,
                 loading |-> FALSE, push |-> <<Path404>>]
    ELSE [task |-> prevTask, parentJob |-> prevParent,
          loading |-> FALSE, push |-> <<>>]

\* the mount effect: what it leaves in task, parentJob, loading and the router
EditTaskLookup(store, i, t, prevTask, prevParent) ==
  IF Truthy(i) /\ Truthy(t)
    THEN LET foundJob == Find(store, i) IN
         IF ~IsNull(foundJob)
           THEN LET foundTask == Find(Val(foundJob).tasks, t) IN
                IF ~IsNull(foundTask)
                  THEN [task |-> foundTask, parentJob |-> foundJob,
                        loading |-> FALSE, push |-> <<>>]
                  ELSE [task |-> prevTask, parentJob |-> foundJob,
                        loading |-> FALSE, push |-> <<Path404>>]
           ELSE [task |-> prevTask, parentJob |-> prevParent,
                 loading |-> FALSE, push |-> <<Path404>>]
    ELSE [task |-> prevTask, parentJob |-> prevParent,
          loading |-> FALSE, push |-> <<>>]

EditTaskEffect ==
  /\ page = "EditTask"
  /\ effectPending
  /\ LET r == EditTaskLookup(initialJobsEdit, etJobId, taskId, task, parentJob) IN
       /\ task' = r.task
       /\ parentJob' = r.parentJob
       /\ loading' = r.loading
       /\ pushed' = pushed \o r.push
  /\ effectPending' = FALSE
  /\ UNCHANGED <<page, pathname, params, job, stores, history>>

\* the updater storing true for any change of a checkbox, whatever checked is
EditTaskChangeChecksOn(prevTask, e) ==
  IF IsNull(prevTask) THEN Null
  ELSE Some(Spread(Val(prevTask), e.name,
                   IF e.type = "checkbox" THEN TRUE ELSE e.value))

\* the updater handleChange passes to setTask
EditTaskChange(prevTask, e) ==
  IF IsNull(prevTask) THEN Null
  ELSE Some(Spread(Val(prevTask), e.name,
                   IF e.type = "checkbox" THEN e.checked ELSE e.value))

\* initialJobs of the edit-task page after handleChange: the updater assigns
\* to no property of prevTask
EditTaskChangeStore(store, i, prevTask, e) == store

EditTaskHandleChange(e) ==
  /\ page = "EditTask"
  /\ task' = EditTaskChange(task, e)
  /\ initialJobsEdit' = EditTaskChangeStore(initialJobsEdit, etJobId, task, e)
  /\ UNCHANGED <<page, pathname, params, job, parentJob, loading, effectPending,
                 pushed, allJobs, initialJobs, history>>

\* the navigation path without its last segment: `/jobs/${parentJob.id}`
EditTaskSubmitTargetNoTasks(parent) ==
  IF ~IsNull(parent) THEN PathJobs \o <<Slash>> \o Val(parent).id ELSE PathJobs

\* handleSubmit: back to the tasks of the parent job, or to the jobs list
EditTaskSubmitTarget(parent) ==
  IF ~IsNull(parent) THEN TasksHref(Val(parent).id) ELSE PathJobs

EditTaskHandleSubmit ==
  /\ page = "EditTask"
  /\ Len(pushed) < MaxPushes
  /\ pushed' = Append(pushed, EditTaskSubmitTarget(parentJob))
  /\ UNCHANGED <<page, pathname, params, job, task, parentJob, loading,
                 effectPending, stores, history>>

\* what EditTask renders
EditTaskView ==
  IF loading THEN "loading"
  ELSE IF IsNull(task) \/ IsNull(parentJob) THEN "notFound"
  ELSE "form"

(***************************************************************************)
(* The application.                                                        *)
(***************************************************************************)
Next ==
  \/ \E p \in UrlInputs : Visit(p)
  \/ \E c \in Stateful, p \in UnresolvedPaths : Render(c, p)
  \/ ClickViewJobs
  \/ \E k \in 1..Len(jobs) : ClickViewTasks(jobs[k])
  \/ \E k \in 1..Len(jobs) : ClickEditJob(jobs[k])
  \/ \E k \in 1..3 : ClickEditTask(k)
  \/ RouterNavigate
  \/ EditJobEffect
  \/ \E e \in ChangeEvents(EditJobControls) : EditJobHandleChange(e)
  \/ EditJobHandleSubmit
  \/ JobTasksEffect
  \/ /\ page = "JobTasks"
     /\ \E t \in ToggleInputs(job) : handleTaskCompletionChange(t)
  \/ EditTaskEffect
  \/ \E e \in ChangeEvents(EditTaskControls) : EditTaskHandleChange(e)
  \/ EditTaskHandleSubmit

Spec == Init /\ [][Next]_vars

(***************************************************************************)
(* Properties.                                                             *)
(***************************************************************************)
\* router.push('/404') has been called by the mounted component
Redirected404 == \E k \in DOMAIN pushed : pushed[k] = Path404

\* C1: for every job id present in the page's sample array, once the mount
\* effect has run the page is in the found state, holds a job whose id is the
\* queried id, and has issued no redirect to /404.
C1_FoundJobHasQueriedId ==
  /\ (page = "EditJob" /\ ~effectPending /\ ~IsNull(Find(allJobs, id)))
       => /\ EditJobView = "form"
          /\ Val(job).id = id
          /\ ~Redirected404
  /\ (page = "JobTasks" /\ ~effectPending /\ ~IsNull(Find(initialJobs, jobId)))
       => /\ JobTasksView = "list"
          /\ Val(job).id = jobId
          /\ ~Redirected404

C1_Witness ==
  /\ page = "EditJob"
  /\ ~effectPending
  /\ id = J3
  /\ EditJobView = "form"
  /\ Val(job).id = J3
  /\ Val(job).jobName = "Emergency Repair - Wilson Pool"
  /\ ~Redirected404

\* C2: for a job id that is given but absent from the page's sample array,
\* the job state is null in every state, the form (or task list) is never
\* shown, and once the mount effect has run a redirect to /404 has been
\* issued and the not-found view is shown.
C2_AbsentJobIsNotFound ==
  /\ (page = "EditJob" /\ Truthy(id) /\ IsNull(Find(allJobs, id)))
       => /\ IsNull(job)
          /\ EditJobView # "form"
          /\ ~effectPending => (Redirected404 /\ EditJobView = "notFound")
  /\ (page = "JobTasks" /\ Truthy(jobId) /\ IsNull(Find(initialJobs, jobId)))
       => /\ IsNull(job)
          /\ JobTasksView # "list"
          /\ ~effectPending => (Redirected404 /\ JobTasksView = "notFound")

C2_Witness ==
  /\ page = "EditJob"
  /\ id = J9
  /\ ~effectPending
  /\ IsNull(job)
  /\ Redirected404
  /\ EditJobView = "notFound"

\* the task getTask(jobId, taskId) finds in a sample array, as a nullable
getTask(store, i, t) ==
  LET foundJob == Find(store, i) IN
  IF IsNull(foundJob) THEN Null ELSE Find(Val(foundJob).tasks, t)

\* C3: on the edit-task page with a job id and a task id given, if the job
\* or the task within it does not exist the task state is null in every
\* state, the form is never shown and the mount effect issues a redirect to
\* /404; if both exist the mount effect yields that task.
C3_GetTaskNotFound ==
  (page = "EditTask" /\ Truthy(etJobId) /\ Truthy(taskId))
    => IF IsNull(getTask(initialJobsEdit, etJobId, taskId))
         THEN /\ IsNull(task)
              /\ EditTaskView # "form"
              /\ ~effectPending => (Redirected404 /\ EditTaskView = "notFound")
         ELSE ~effectPending =>
                /\ EditTaskView = "form"
                /\ Val(task).id = taskId
                /\ Val(parentJob).id = etJobId
                /\ ~Redirected404

\* getTask("1", "9-9"): the job exists, the task does not
C3_Witness ==
  /\ page = "EditTask"
  /\ etJobId = J1
  /\ taskId = T99
  /\ ~effectPending
  /\ ~IsNull(parentJob)
  /\ IsNull(task)
  /\ Redirected404
  /\ EditTaskView = "notFound"

\* a step of EditJob's handleSubmit with a job loaded
EditJobSubmitted ==
  /\ page = "EditJob"
  /\ page' = "EditJob"
  /\ ~IsNull(job)
  /\ pushed' = Append(pushed, EditJobSubmitTarget)

\* C4: after the edit-job form is submitted with a job loaded, getJob(id) on
\* the sample array of the edit-job page, and the list of the Jobs page,
\* hold the job as submitted.
C4_SubmitReflectedByReads ==
  [][EditJobSubmitted =>
       /\ Find(allJobs', id') = job'
       /\ Find(jobs, id') = job']_vars

\* a step of handleTaskCompletionChange for a task of the loaded job
TaskToggled(t) ==
  /\ page = "JobTasks"
  /\ page' = "JobTasks"
  /\ ~IsNull(job)
  /\ ~IsNull(Find(Val(job).tasks, t))
  /\ history' = Remember(history, [taskId |-> t, prevJob |-> job])

\* a step of EditTask's handleSubmit with the task form shown
EditTaskSubmitted ==
  /\ page = "EditTask"
  /\ page' = "EditTask"
  /\ EditTaskView = "form"
  /\ pushed' = Append(pushed, EditTaskSubmitTarget(parentJob))

\* C5: after a completion change (a checkbox of the tasks page, or a submit
\* of the edit-task form), getTask on the sample arrays of the tasks page
\* and of the edit-task page returns the task with the completed value set.
C5_CompletionReflectedByReads ==
  [][/\ \A t \in TaskIdInputs \cup {T13, T22, T23} :
          TaskToggled(t) =>
            LET c == Val(Find(Val(job').tasks, t)).completed IN
            /\ Val(getTask(initialJobs', jobId', t)).completed = c
            /\ Val(getTask(initialJobsEdit', jobId', t)).completed = c
     /\ EditTaskSubmitted =>
          LET c == Val(task').completed IN
          /\ Val(getTask(initialJobsEdit', etJobId', taskId')).completed = c
          /\ Val(getTask(initialJobs', etJobId', taskId')).completed = c]_vars

\* C6: no job held by the application (the job of the edit-job page, the
\* entries of its sample array) has an empty jobName or clientName.
C6_JobNamesNeverEmpty ==
  /\ (page = "EditJob" /\ ~IsNull(job))
       => (Val(job).jobName # "" /\ Val(job).clientName # "")
  /\ \A k \in DOMAIN allJobs :
       allJobs[k].jobName # "" /\ allJobs[k].clientName # ""

\* C7: the status of every job is one of Scheduled, In Progress, Completed,
\* Overdue.
C7_StatusInEnumeration ==
  /\ (page \in {"EditJob", "JobTasks"} /\ ~IsNull(job))
       => Val(job).status \in statusColors
  /\ (page = "EditTask" /\ ~IsNull(parentJob))
       => Val(parentJob).status \in statusColors
  /\ \A k \in DOMAIN allJobs : allJobs[k].status \in statusColors

\* C8: no task has an empty title.
C8_TitleNeverEmpty ==
  /\ (page = "EditTask" /\ ~IsNull(task)) => Val(task).title # ""
  /\ (page = "JobTasks" /\ ~IsNull(job))
       => \A k \in DOMAIN Val(job).tasks : Val(job).tasks[k].title # ""

\* C9: two calls of handleTaskCompletionChange in a row for the same existing
\* task leave the job's task list as it was before the first call.
C9_ToggleTwiceRestores ==
  (/\ page = "JobTasks"
   /\ Len(history) = 2
   /\ history[1].taskId = history[2].taskId
   /\ ~IsNull(history[1].prevJob)
   /\ ~IsNull(Find(Val(history[1].prevJob).tasks, history[1].taskId)))
    => /\ ~IsNull(job)
       /\ Val(job).tasks = Val(history[1].prevJob).tasks

\* task 1-2 (not completed in the sample data) toggled twice
C9_Witness ==
  /\ page = "JobTasks"
  /\ Len(history) = 2
  /\ history[1].taskId = T12
  /\ history[2].taskId = T12
  /\ history[1].prevJob = Some(SeedJobsWithTasks[1])
  /\ Val(history[2].prevJob).tasks[2].completed
  /\ job = Some(SeedJobsWithTasks[1])

\* the fields of a task other than completed
OtherTaskFields(t) == [f \in (DOMAIN t) \ {"completed"} |-> t[f]]
\* the fields of a job other than tasks
OtherJobFields(j) == [f \in (DOMAIN j) \ {"tasks"} |-> j[f]]

\* C10: a call of handleTaskCompletionChange for an existing task negates
\* the completed flag of exactly that task: the other tasks, the other
\* fields of that task and the other fields of the job are as before.
C10_ToggleFlipsOnlyThatTask ==
  (/\ page = "JobTasks"
   /\ history # <<>>
   /\ ~IsNull(history[Len(history)].prevJob)
   /\ ~IsNull(Find(Val(history[Len(history)].prevJob).tasks,
                   history[Len(history)].taskId)))
    => LET t == history[Len(history)].taskId
           before == Val(history[Len(history)].prevJob)
       IN  /\ ~IsNull(job)
           /\ OtherJobFields(Val(job)) = OtherJobFields(before)
           /\ Len(Val(job).tasks) = Len(before.tasks)
           /\ \A k \in DOMAIN before.tasks :
                IF before.tasks[k].id = t
                  THEN /\ Val(job).tasks[k].completed = ~before.tasks[k].completed
                       /\ OtherTaskFields(Val(job).tasks[k])
                            = OtherTaskFields(before.tasks[k])
                  ELSE Val(job).tasks[k] = before.tasks[k]

\* toggleCompletion("1", "1-2") on the sample data: 1-1 and 1-2 both completed
C10_Witness ==
  /\ page = "JobTasks"
  /\ jobId = J1
  /\ Len(history) = 1
  /\ history[1].taskId = T12
  /\ history[1].prevJob = Some(SeedJobsWithTasks[1])
  /\ Val(job).tasks[1].completed
  /\ Val(job).tasks[2].completed
  /\ ~Val(job).tasks[3].completed

\* the latest call of handleTaskCompletionChange
LastCall == history[Len(history)]

\* C11: a call of handleTaskCompletionChange that finds no job loaded, or no
\* task with the given id in the loaded job, signals NotFound: a redirect to
\* /404 has been issued or the not-found view is shown.
C11_ToggleSignalsNotFound ==
  (/\ page = "JobTasks"
   /\ history # <<>>
   /\ \/ IsNull(LastCall.prevJob)
      \/ IsNull(Find(Val(LastCall.prevJob).tasks, LastCall.taskId)))
    => (Redirected404 \/ JobTasksView = "notFound")

\* the ids of a task list, in order
TaskIds(tasks) == [k \in DOMAIN tasks |-> tasks[k].id]

\* C12: the task list of the job shown on the tasks page has the length and
\* the sequence of task ids of the seeded list of that job, whatever calls
\* of handleTaskCompletionChange were made.
C12_TaskOrderKept ==
  (page = "JobTasks" /\ ~IsNull(job))
    => LET seeded == Val(Find(SeedJobsWithTasks, Val(job).id)).tasks IN
       /\ Len(Val(job).tasks) = Len(seeded)
       /\ TaskIds(Val(job).tasks) = TaskIds(seeded)

\* job 1 after its second and third task were toggled
C12_Witness ==
  /\ page = "JobTasks"
  /\ jobId = J1
  /\ Len(history) = 2
  /\ ~IsNull(job)
  /\ Val(job).tasks[2].completed
  /\ Val(job).tasks[3].completed
  /\ TaskIds(Val(job).tasks) = <<T11, T12, T13>>

\* C13: the job or task held by a page has the id it was loaded with (the
\* id the route gave), whatever field changes, toggles and submits were made.
C13_IdsImmutable ==
  /\ (page = "EditJob" /\ ~IsNull(job)) => Val(job).id = id
  /\ (page = "JobTasks" /\ ~IsNull(job)) => Val(job).id = jobId
  /\ (page = "EditTask" /\ ~IsNull(task)) => Val(task).id = taskId
  /\ (page = "EditTask" /\ ~IsNull(parentJob)) => Val(parentJob).id = etJobId

\* task 1-2 after its title and completed flag were changed and the form
\* was submitted
C13_Witness ==
  /\ page = "EditTask"
  /\ taskId = T12
  /\ ~IsNull(task)
  /\ Val(task).title = "Completed"
  /\ Val(task).completed
  /\ pushed # <<>>
  /\ Val(task).id = T12

\* no two elements of a list of jobs or of tasks have the same id
UniqueIds(list) ==
  \A a, b \in DOMAIN list : a # b => list[a].id # list[b].id

\* C14: job ids are unique within each sample array, task ids are pairwise
\* distinct within each job of the sample arrays and within the job held by
\* the tasks page and by the edit-task page.
C14_IdsUnique ==
  /\ UniqueIds(jobs)
  /\ UniqueIds(allJobs)
  /\ UniqueIds(initialJobs)
  /\ UniqueIds(initialJobsEdit)
  /\ \A k \in DOMAIN initialJobs : UniqueIds(initialJobs[k].tasks)
  /\ \A k \in DOMAIN initialJobsEdit : UniqueIds(initialJobsEdit[k].tasks)
  /\ (page = "JobTasks" /\ ~IsNull(job)) => UniqueIds(Val(job).tasks)
  /\ (page = "EditTask" /\ ~IsNull(parentJob)) => UniqueIds(Val(parentJob).tasks)

\* job 2 after its first task was toggled
C14_Witness ==
  /\ page = "JobTasks"
  /\ jobId = J2
  /\ Len(history) = 1
  /\ LastCall.taskId = T21
  /\ ~IsNull(job)
  /\ Val(job).tasks[1].completed
  /\ UniqueIds(Val(job).tasks)

\* C15: the status of the job held by the tasks page or the edit-task page
\* is the seeded status whatever toggles and task edits were made, and the
\* tasks of the job held by the edit-job page are the seeded ones whatever
\* status was typed.
C15_StatusIndependentOfTasks ==
  /\ (page = "JobTasks" /\ ~IsNull(job))
       => Val(job).status = Val(Find(SeedJobsWithTasks, Val(job).id)).status
  /\ (page = "EditTask" /\ ~IsNull(parentJob))
       => /\ Val(parentJob).status
               = Val(Find(SeedJobsEdit, Val(parentJob).id)).status
          /\ Val(parentJob).tasks
               = Val(Find(SeedJobsEdit, Val(parentJob).id)).tasks
  /\ (page = "EditJob" /\ ~IsNull(job))
       => Val(job).tasks = Val(Find(SeedJobs, Val(job).id)).tasks

\* every task of job 1 completed, its status still In Progress
C15_Witness ==
  /\ page = "JobTasks"
  /\ jobId = J1
  /\ ~IsNull(job)
  /\ \A k \in DOMAIN Val(job).tasks : Val(job).tasks[k].completed
  /\ Val(job).status = "In Progress"

\* C16: the module-level sample arrays always hold the values they were
\* declared with: no field change, toggle or submit writes to them.
C16_SampleArraysNeverMutated ==
  /\ allJobs = SeedJobs
  /\ initialJobs = SeedJobsWithTasks
  /\ initialJobsEdit = SeedJobsEdit

\* job 3 edited and submitted on the edit-job page, allJobs as declared
C16_Witness ==
  /\ page = "EditJob"
  /\ id = J3
  /\ ~IsNull(job)
  /\ Val(job).status = "Completed"
  /\ pushed # <<>>
  /\ Find(allJobs, id) # job
  /\ allJobs = SeedJobs

\* e.target of a change of the completed checkbox of the edit-task form
CompletedEvent(checked) ==
  [name |-> "completed", type |-> "checkbox", value |-> "on", checked |-> checked]

\* C17: toggling a task on the tasks page gives the task value that a change
\* of the edit-task form's completed checkbox to the negated flag gives: for
\* the task flipped by the last toggle, and for every task value the
\* edit-task page holds.
C17_ToggleEqualsCheckboxChange ==
  /\ (page = "JobTasks" /\ history # <<>> /\ ~IsNull(LastCall.prevJob))
       => LET prev == Val(LastCall.prevJob).tasks IN
          /\ ~IsNull(job)
          /\ \A k \in DOMAIN prev :
               prev[k].id = LastCall.taskId
                 => Some(Val(job).tasks[k])
                      = EditTaskChange(Some(prev[k]),
                                       CompletedEvent(~prev[k].completed))
  /\ (page = "EditTask" /\ ~IsNull(task))
       => EditTaskChange(task, CompletedEvent(~Val(task).completed))
            = Some(updatedTasks(<<Val(task)>>, Val(task).id)[1])

\* task 1-1, seeded as completed, unchecked on the tasks page
C17_Witness ==
  /\ page = "JobTasks"
  /\ jobId = J1
  /\ Len(history) = 1
  /\ LastCall.taskId = T11
  /\ ~IsNull(LastCall.prevJob)
  /\ Val(LastCall.prevJob).tasks[1].completed
  /\ ~IsNull(job)
  /\ ~Val(job).tasks[1].completed

\* C18: a change event on the edit-job form sets the job's field named by
\* the event to the event's value and changes no other field of the job; a
\* change event on the edit-task form sets the task's field named by the
\* event (completed to the checkbox's checked flag, any other to the value)
\* and changes no other field of the task, nor the parent job.
C18_FieldChangeIsPartialUpdate ==
  [][/\ \A e \in ChangeEvents(EditJobControls) :
          (EditJobHandleChange(e) /\ ~IsNull(job))
            => /\ e.name \in {"jobName", "clientName", "status", "gateCode", "notes"}
               /\ job' = Some([Val(job) EXCEPT ![e.name] = e.value])
     /\ \A e \in ChangeEvents(EditTaskControls) :
          (EditTaskHandleChange(e) /\ ~IsNull(task))
            => /\ e.name \in {"title", "description", "completed", "dueDate", "notes"}
               /\ task' = Some([Val(task) EXCEPT ![e.name] =
                                  IF e.name = "completed" THEN e.checked
                                                          ELSE e.value])
               /\ parentJob' = parentJob]_vars

\* the due date of task 2-1 changed on the edit-task form, nothing else
C18_Witness ==
  /\ page = "EditTask"
  /\ etJobId = J2
  /\ taskId = T21
  /\ ~IsNull(task)
  /\ Val(task).dueDate = "2025-07-01"
  /\ task = Some([Val(getTask(SeedJobsEdit, J2, T21)) EXCEPT !.dueDate = "2025-07-01"])
  /\ parentJob = Find(SeedJobsEdit, J2)

\* C19: once the tasks page has run its effect for the id of a job the Jobs
\* page lists, it shows that job's task list and has not pushed /404.
C19_ListedJobHasTasksPage ==
  (/\ page = "JobTasks"
   /\ ~effectPending
   /\ \E k \in DOMAIN jobs : pathname = TasksHref(jobs[k].id) /\ jobId = jobs[k].id)
    => /\ JobTasksView = "list"
       /\ Val(job).id = jobId
       /\ ~Redirected404

\* C20: when the edit-task page runs its effect at the Edit Task link of a
\* task in the tasks page's array, it loads a task equal to that one and a
\* parent job with that job's id, and pushes nothing.
C20_EditTaskFindsListedTask ==
  [][\A k \in DOMAIN initialJobs : \A n \in DOMAIN initialJobs[k].tasks :
       (/\ EditTaskEffect
        /\ pathname = EditTaskHref(initialJobs[k].id, initialJobs[k].tasks[n].id))
         => /\ task' = Some(initialJobs[k].tasks[n])
            /\ ~IsNull(parentJob')
            /\ Val(parentJob').id = initialJobs[k].id
            /\ ~loading'
            /\ pushed' = pushed]_vars

\* task 2-3 loaded by the edit-task page as the tasks page lists it
C20_Witness ==
  /\ page = "EditTask"
  /\ pathname = EditTaskHref(J2, T23)
  /\ ~effectPending
  /\ ~loading
  /\ task = Some(initialJobs[2].tasks[3])
  /\ ~IsNull(parentJob)
  /\ Val(parentJob).id = J2
  /\ pushed = <<>>

(***************************************************************************)
(* Links over arbitrary ids: the two link templates applied to every id    *)
(* of a bounded set, the page the router serves for the result, and the    *)
(* ids that page reads back from the pathname.                             *)
(***************************************************************************)
\* longest id put into a link
MaxIdLen == 2
\* the characters of those ids: a digit, a letter of the route words, a slash
IdChars == {"1", "e", Slash}

RECURSIVE IdsOfLen(_)
IdsOfLen(n) ==
  IF n = 0 THEN {<<>>}
  ELSE {Append(s, c) : s \in IdsOfLen(n - 1), c \in IdChars}

RouteIds == UNION {IdsOfLen(n) : n \in 0..MaxIdLen}

\* the tasks page renders the Edit Task link for a job jid with a task tid,
\* and the link is followed
FollowEditTaskLink(jid, tid) ==
  /\ page = "JobTasks"
  /\ Visit(EditTaskHref(jid, tid))

\* the Jobs page renders the Edit Job link for a job i, and it is followed
FollowEditJobLink(i) ==
  /\ page = "Jobs"
  /\ Visit(EditJobHref(i))

NextRoute ==
  \/ ClickViewJobs
  \/ \E k \in 1..Len(jobs) : ClickViewTasks(jobs[k])
  \/ JobTasksEffect
  \/ \E j \in RouteIds, t \in RouteIds : FollowEditTaskLink(j, t)
  \/ \E i \in RouteIds : FollowEditJobLink(i)
  \/ EditJobEffect
  \/ EditTaskEffect

SpecRoute == Init /\ [][NextRoute]_vars

\* an id a link can carry as one segment: not empty, no slash in it
SegmentId(i) == i # <<>> /\ \A k \in DOMAIN i : i[k] # Slash

\* C21: for all non-empty ids without a slash, the path the Edit Task link
\* template builds from (jobId, taskId) is served by the edit-task page and
\* its segments 2 and 4 are jobId and taskId again; the path the Edit Job
\* link template builds from an id is served by the edit-job page and its
\* segment 2 is that id.
C21_RouteRoundTrip ==
  \A j \in RouteIds : \A t \in RouteIds :
    (SegmentId(j) /\ SegmentId(t))
      => /\ pathname = EditTaskHref(j, t)
              => (page = "EditTask" /\ etJobId = j /\ taskId = t)
         /\ pathname = EditJobHref(j)
              => (page = "EditJob" /\ id = j)

\* the edit-task page at the link of job "e1", task "1e": ids that are not
\* in the sample data and look like no seeded id
C21_Witness ==
  /\ page = "EditTask"
  /\ pathname = EditTaskHref(<<"e", "1">>, <<"1", "e">>)
  /\ etJobId = <<"e", "1">>
  /\ taskId = <<"1", "e">>
  /\ ~effectPending

\* C22: on each of the three pages, whatever the route ids are (also empty
\* or missing), once the mount effect has run loading is false: the page
\* shows its found view or its not-found view, not the loading view.
C22_EffectEndsLoading ==
  (page \in Stateful /\ ~effectPending)
    => /\ ~loading
       /\ page = "EditJob" => EditJobView \in {"form", "notFound"}
       /\ page = "JobTasks" => JobTasksView \in {"list", "notFound"}
       /\ page = "EditTask" => EditTaskView \in {"form", "notFound"}

\* C23: whenever a page shows its not-found view (loading false and the job,
\* or the task or the parent job, null), router.push('/404') has been called.
C23_NotFoundAlwaysRedirects ==
  /\ (page = "EditJob" /\ EditJobView = "notFound") => Redirected404
  /\ (page = "JobTasks" /\ JobTasksView = "notFound") => Redirected404
  /\ (page = "EditTask" /\ EditTaskView = "notFound") => Redirected404

\* C24: whenever the edit-task page shows the form, whatever field changes
\* were made, the parent job's id is the job id of the URL, the task's id is
\* the task id of the URL, and the parent job's task list has a task with
\* that id.
C24_FormMatchesUrl ==
  (page = "EditTask" /\ EditTaskView = "form")
    => /\ Val(parentJob).id = etJobId
       /\ Val(task).id = taskId
       /\ ~IsNull(Find(Val(parentJob).tasks, taskId))

\* the form of task 2-1 after its title was cleared and its box checked
C24_Witness ==
  /\ page = "EditTask"
  /\ EditTaskView = "form"
  /\ etJobId = J2
  /\ taskId = T21
  /\ Val(task).title = ""
  /\ Val(task).completed
  /\ Val(parentJob).id = J2

\* C25: a field change on the edit-job page while job is null, a field
\* change on the edit-task page while task is null, and a completion toggle
\* on the tasks page while job is null leave the state null and change
\* nothing else of the page or of the sample arrays.
C25_HandlersOnNullAreNoOps ==
  [][/\ \A e \in ChangeEvents(EditJobControls) :
          (EditJobHandleChange(e) /\ IsNull(job))
            => (IsNull(job') /\ UNCHANGED vars)
     /\ \A e \in ChangeEvents(EditTaskControls) :
          (EditTaskHandleChange(e) /\ IsNull(task))
            => (IsNull(task') /\ UNCHANGED vars)
     /\ \A t \in TaskIdInputs :
          (page = "JobTasks" /\ handleTaskCompletionChange(t) /\ IsNull(job))
            => /\ IsNull(job')
               /\ UNCHANGED <<page, pathname, params, task, parentJob, loading,
                              effectPending, pushed, stores>>]_vars

\* a toggle that arrived on the tasks page of job 3 after its lookup failed
C25_Witness ==
  /\ page = "JobTasks"
  /\ jobId = J3
  /\ ~effectPending
  /\ history # <<>>
  /\ IsNull(LastCall.prevJob)
  /\ IsNull(job)
  /\ JobTasksView = "notFound"

(***************************************************************************)
(* Two events handled before the next render.  Each handler runs to its    *)
(* end and queues its updater; React then calls the queued updaters in     *)
(* order, each with the state the one before it returned.                  *)
(***************************************************************************)
EditJobHandleChanges(e1, e2) ==
  /\ page = "EditJob"
  /\ job' = EditJobChange(EditJobChange(job, e1), e2)
  /\ allJobs' = EditJobChangeStore(EditJobChangeStore(allJobs, job, e1),
                                   EditJobChange(job, e1), e2)
  /\ UNCHANGED <<page, pathname, params, task, parentJob, loading, effectPending,
                 pushed, initialJobs, initialJobsEdit, history>>

EditTaskHandleChanges(e1, e2) ==
  /\ page = "EditTask"
  /\ task' = EditTaskChange(EditTaskChange(task, e1), e2)
  /\ initialJobsEdit' =
       EditTaskChangeStore(EditTaskChangeStore(initialJobsEdit, etJobId, task, e1),
                           etJobId, EditTaskChange(task, e1), e2)
  /\ UNCHANGED <<page, pathname, params, job, parentJob, loading, effectPending,
                 pushed, allJobs, initialJobs, history>>

handleTaskCompletionChanges(t1, t2) ==
  /\ page = "JobTasks"
  /\ job' = ToggleCompletion(ToggleCompletion(job, t1), t2)
  /\ initialJobs' =
       ToggleCompletionStore(ToggleCompletionStore(initialJobs, job, t1),
                             ToggleCompletion(job, t1), t2)
  /\ history' = Remember(Remember(history, [taskId |-> t1, prevJob |-> job]),
                         [taskId |-> t2, prevJob |-> ToggleCompletion(job, t1)])
  /\ UNCHANGED <<page, pathname, params, task, parentJob, loading, effectPending,
                 pushed, allJobs, initialJobsEdit>>

\* the pages opened for the batches: one that loads and one that does not
BatchUrls ==
  {EditJobHref(J1), EditJobHref(J9), TasksHref(J1), TasksHref(J3),
   EditTaskHref(J2, T21), EditTaskHref(J2, T99)}

NextBatch ==
  \/ \E p \in BatchUrls : Visit(p)
  \/ EditJobEffect
  \/ JobTasksEffect
  \/ EditTaskEffect
  \/ \E e \in ChangeEvents(EditJobControls) : EditJobHandleChange(e)
  \/ \E e \in ChangeEvents(EditTaskControls) : EditTaskHandleChange(e)
  \/ /\ page = "JobTasks"
     /\ \E t \in ToggleInputs(job) : handleTaskCompletionChange(t)
  \/ \E e1, e2 \in ChangeEvents(EditJobControls) : EditJobHandleChanges(e1, e2)
  \/ \E e1, e2 \in ChangeEvents(EditTaskControls) : EditTaskHandleChanges(e1, e2)
  \/ /\ page = "JobTasks"
     /\ \E t1, t2 \in ToggleInputs(job) : handleTaskCompletionChanges(t1, t2)

SpecBatch == Init /\ [][NextBatch]_vars

\* the value a change event of the edit-task form carries
EventValue(e) == IF e.type = "checkbox" THEN e.checked ELSE e.value

\* every task id of the sample data, and one no task has
AllTaskIds == {T11, T12, T13, T21, T22, T23, T99}

\* C26: two field changes handled before the next render give the job (the
\* task) with both fields set, the second value winning on the same field,
\* and for different fields the same result in either order; two toggles
\* handled before the next render flip each named task once per toggle,
\* whatever their order.
C26_NoLostUpdate ==
  [][/\ \A e1, e2 \in ChangeEvents(EditJobControls) :
          (EditJobHandleChanges(e1, e2) /\ ~IsNull(job))
            => /\ ~IsNull(job')
               /\ Val(job')[e2.name] = e2.value
               /\ e1.name # e2.name => Val(job')[e1.name] = e1.value
               /\ \A f \in DOMAIN Val(job) \ {e1.name, e2.name} :
                    Val(job')[f] = Val(job)[f]
               /\ e1.name # e2.name
                    => job' = EditJobChange(EditJobChange(job, e2), e1)
     /\ \A e1, e2 \in ChangeEvents(EditTaskControls) :
          (EditTaskHandleChanges(e1, e2) /\ ~IsNull(task))
            => /\ ~IsNull(task')
               /\ Val(task')[e2.name] = EventValue(e2)
               /\ e1.name # e2.name => Val(task')[e1.name] = EventValue(e1)
               /\ \A f \in DOMAIN Val(task) \ {e1.name, e2.name} :
                    Val(task')[f] = Val(task)[f]
               /\ e1.name # e2.name
                    => task' = EditTaskChange(EditTaskChange(task, e2), e1)
     /\ \A t1, t2 \in AllTaskIds :
          (page = "JobTasks" /\ handleTaskCompletionChanges(t1, t2) /\ ~IsNull(job))
            => /\ ~IsNull(job')
               /\ Len(Val(job').tasks) = Len(Val(job).tasks)
               /\ \A k \in DOMAIN Val(job).tasks :
                    LET old == Val(job).tasks[k]
                        flips == (IF old.id = t1 THEN 1 ELSE 0)
                                   + (IF old.id = t2 THEN 1 ELSE 0)
                    IN  Val(job').tasks[k] =
                          [old EXCEPT !.completed =
                             IF flips = 1 THEN ~old.completed ELSE old.completed]
               /\ job' = ToggleCompletion(ToggleCompletion(job, t2), t1)]_vars

\* job 1 after its name and its gate code were changed
C26_Witness ==
  /\ page = "EditJob"
  /\ id = J1
  /\ job = Some([SeedJobs[1] EXCEPT !.jobName = "Completed", !.gateCode = ""])

\* C27: a submit of the edit-job form pushes /jobs; a submit of the
\* edit-task form pushes /jobs/<job id of the URL>/tasks when parentJob is
\* set and /jobs when it is null; either submit leaves job, task, parentJob,
\* loading and the three sample arrays as they were.
C27_SubmitOnlyNavigates ==
  [][/\ EditJobHandleSubmit
          => /\ pushed' = Append(pushed, PathJobs)
             /\ UNCHANGED <<page, pathname, params, job, task, parentJob,
                            loading, effectPending, stores>>
     /\ EditTaskHandleSubmit
          => /\ pushed' = Append(pushed, IF IsNull(parentJob)
                                           THEN PathJobs
                                           ELSE TasksHref(etJobId))
             /\ UNCHANGED <<page, pathname, params, job, task, parentJob,
                            loading, effectPending, stores>>]_vars

\* the edit-task form of task 1-1 submitted after its title was cleared
C27_Witness ==
  /\ page = "EditTask"
  /\ etJobId = J1
  /\ taskId = T11
  /\ pushed = <<TasksHref(J1)>>
  /\ ~IsNull(task)
  /\ Val(task).title = ""
  /\ initialJobsEdit = SeedJobsEdit

====
